---- MODULE Spec2Model ----
(*****************************************************************************)
(* AbstractSource.read (base_python/sdk/abstract_source.py) driving the      *)
(* Slack connector's streams (source_slack/source.py).                       *)
(*                                                                           *)
(* Time is counted in whole days.  A message "of day t" is a message whose   *)
(* Slack timestamp lies in the window [t, t + 1) and whose cursor value      *)
(* "ts" is t; the channel holds one message for each day of `server`, and    *)
(* each of them starts a thread, whose replies the API chooses; a channel    *)
(* has one member.  A per-stream state blob (a Python dict with the          *)
(* optional keys "ts" and "start_ts") is a record whose missing keys hold    *)
(* None.  The connector state and the caller's seed are maps from a set of   *)
(* stream names to such blobs.  The Slack API, the clock and the attributes  *)
(* of a stream instance that the orchestrator only reads are the             *)
(* environment.  A message of `output` carries what the caller sees (type,   *)
(* cursor value of a RECORD, data of a STATE at the moment it is emitted)    *)
(* and, for the properties, the stream and the ordinal of the slice it was   *)
(* emitted for.                                                              *)
(*                                                                           *)
(* Three smaller machines share the module: AbstractSource.check             *)
(* (SpecCheck), the pagination of one slice's records by the Slack streams   *)
(* (SpecPages) and the resolution of cursor field and primary key by the     *)
(* normalization's StreamProcessor (SpecResolve).  Each leaves the           *)
(* variables of read alone, and read leaves theirs alone.                    *)
(*****************************************************************************)
EXTENDS Integers, Sequences, FiniteSets, TLC

\* ------------------------------------------------------------------ bounds
\* the clock: pendulum.now(), in days
Now == 14
\* messages exist on the server for the last MaxTs days
MaxTs == 2
\* number of thread replies the API hands out in all
MaxRecords == 2
\* largest state_checkpoint_interval a stream instance declares
MaxInterval == 2
\* number of configured streams in a catalog
MaxCatalog == 2
\* number of public channels of the workspace
NumChannels == 1
\* number of replies of the thread of the resumption example
ExampleLen == 5
\* longest path a StreamProcessor is given as cursor field or key component
MaxPath == 2
\* largest number of components of a primary key
MaxKey == 2
\* number of times the caller runs check
MaxChecks == 3
\* number of pages the API holds for a slice
MaxPages == 5
\* the retries of one request (HttpStream.max_retries)
MaxTries == 2
\* the rows of a sheet
MaxRows == 3
\* the configured streams of a Smartsheets catalog
MaxSheetStreams == 2

\* ------------------------------------------------------- program constants
\* default_start_date = now - 14 days
DefaultStartDays == 14
\* threads_lookback_window = {"days": 7}
LookbackDays == 7
\* a missing dict key / Python None
None == -1

\* ------------------------------------------------------------- data model
ServerTs == (Now - MaxTs + 1)..Now
Future == Now + 1
\* the replies of a thread are of yesterday or of today
ReplyTs == {Now - 1, Now}

EmptyDict == [ts |-> None, start_ts |-> None]

\* dict truthiness: a dict is falsy iff it has no key
Truthy(d) == d.ts # None \/ d.start_ts # None

Max(a, b) == IF a >= b THEN a ELSE b
MaxOf(S) == CHOOSE x \in S : \A y \in S : y <= x

\* float(x) of a cursor value: value preserving on the whole days used here
Float(x) == x

\* pendulum.from_timestamp / DateTime.timestamp(): epoch days <-> DateTime
FromTimestamp(t) == t
Timestamp(d) == d

\* the streams SourceSlack.streams returns that are modelled, in its order
Streams == <<"channel_members", "channel_messages", "threads">>
StreamNames == {Streams[i] : i \in DOMAIN Streams}
StreamIndex(name) == CHOOSE i \in DOMAIN Streams : Streams[i] = name

\* Stream.supports_incremental: true for the streams with cursor_field = "ts"
SupportsIncremental(name) == name \in {"channel_messages", "threads"}

SyncModes == {"full_refresh", "incremental"}

\* a stream name a catalog can configure that SourceSlack.streams does not
\* return
UnknownStream == "unknown"

\* the names a catalog configures, in the order a catalog lists them
CatalogNames ==
    <<"channel_members", UnknownStream, "channel_messages", "threads">>
CatalogIndex(name) ==
    CHOOSE i \in DOMAIN CatalogNames : CatalogNames[i] = name

\* a lookup that finds an instance for every name
Implemented_any(name) == TRUE

\* stream_instances[configured_stream.stream.name] finds an instance
Implemented(name) == name \in StreamNames

\* self.name of the source: the name of its class
SourceName == "SourceSlack"

\* the paths a configured stream can give as its cursor field: none, a
\* top-level property, a nested property
FieldPaths == {<< >>, <<"ts">>, <<"thread", "ts">>}
\* the primary keys it can give: none, or one component that is such a path
KeyPaths == {<< >>, << <<"ts">> >>, << <<"thread", "ts">> >>}

\* the state blobs a caller seeds a stream with
SeedBlobs ==
    {[ts |-> Future, start_ts |-> None], [ts |-> None, start_ts |-> Future]}

\* get_updated_state that keeps the smaller of the two cursor values
get_updated_state_min(current_stream_state, latest_record) ==
    [current_stream_state EXCEPT
        !.ts = IF current_stream_state.ts = None
                  \/ Float(latest_record) <= current_stream_state.ts
               THEN Float(latest_record)
               ELSE current_stream_state.ts]

\* get_updated_state that tracks the latest record instead of the maximum
get_updated_state_latest(current_stream_state, latest_record) ==
    [current_stream_state EXCEPT !.ts = Float(latest_record)]

\* IncrementalMessageStream.get_updated_state
get_updated_state(current_stream_state, latest_record) ==
    [current_stream_state EXCEPT
        !.ts = Max(Float(latest_record),
                   IF current_stream_state.ts = None THEN 0
                   ELSE current_stream_state.ts)]

\* chunk_date_range: one slice per day from start_date while start_date <= now
RECURSIVE chunk_date_range(_)
chunk_date_range(start_date) ==
    IF start_date <= Now
    THEN <<[kind |-> "chunk", oldest |-> Timestamp(start_date),
            latest |-> Timestamp(start_date + 1)]>>
         \o chunk_date_range(start_date + 1)
    ELSE << >>

default_start_date == Now - DefaultStartDays

\* ChannelMessages.stream_slices
ChannelMessages_stream_slices(stream_state, start) ==
    chunk_date_range(FromTimestamp(
        IF stream_state.start_ts # None THEN stream_state.start_ts
        ELSE Timestamp(start)))

\* Threads.stream_slices, up to the loop: the chunks of parent messages
Threads_message_chunks(stream_state) ==
    LET messages_start_date ==
            IF stream_state.start_ts # None
            THEN FromTimestamp(stream_state.start_ts) - LookbackDays
            ELSE default_start_date
    IN ChannelMessages_stream_slices(
           [ts |-> None, start_ts |-> Timestamp(messages_start_date)],
           messages_start_date)

\* ChannelMembers.stream_slices: one slice per channel
ChannelMembers_stream_slices ==
    [c \in 1..NumChannels |-> [kind |-> "channel", oldest |-> c, latest |-> c]]

\* Stream.stream_slices of the stream called `name`
stream_slices(name, stream_state) ==
    CASE name = "channel_messages" ->
            ChannelMessages_stream_slices(stream_state, default_start_date)
      [] name = "threads" -> Threads_message_chunks(stream_state)
      [] OTHER -> ChannelMembers_stream_slices

\* ------------------------------------------------------------ environment
VARIABLES
    server,             \* the days for which the channel holds a message
    replies,            \* the cursor values replies of a thread can have
    ordered             \* TRUE iff the API returns replies oldest first

\* the cursor values conversations.history returns for a day chunk
ChunkTs(chunk) == {t \in server : chunk.oldest <= t /\ t < chunk.latest}

\* the records read_records can yield next for slice s, `last` being the
\* cursor value of the record it yielded before (None at the start), n the
\* number of records it yielded and b the number of replies the API still
\* hands out: the messages of a day chunk once each, any reply of a thread,
\* the member of a channel
Pending(s, last, n, b) ==
    CASE s.kind = "chunk" -> {t \in ChunkTs(s) : t > last}
      [] s.kind = "thread" ->
            {t \in replies : b > 0 /\ (ordered => t > last)}
      [] OTHER -> {t \in {None} : n = 0}

\* read_records can be exhausted: a thread at any reply, a day chunk and a
\* channel once their records are read
Exhausted(s, last, n) == s.kind # "thread" => Pending(s, last, n, 0) = {}

\* the chunks left in which Threads.stream_slices finds a parent message
ParentChunks(chunks) == {j \in DOMAIN chunks : ChunkTs(chunks[j]) # {}}

Min(S) == CHOOSE x \in S : \A y \in S : x <= y

NoSlice == [kind |-> "none", oldest |-> 0, latest |-> 0]
NoData == [n \in {} |-> EmptyDict]

\* _as_airbyte_record; slice is the ordinal of the slice the record is from
as_airbyte_record(stream_name, data, n) ==
    [type |-> "RECORD", stream |-> stream_name, ts |-> data,
     data |-> NoData, slice |-> n]

\* the connector_state after connector_state[stream_name] = stream_state
Assign(cs, stream_name, stream_state) ==
    [n \in DOMAIN cs \cup {stream_name} |->
        IF n = stream_name THEN stream_state ELSE cs[n]]

\* a STATE message that carries the entry of the stream being read only
checkpoint_state_own(stream_name, cs, n) ==
    [type |-> "STATE", stream |-> stream_name, ts |-> None,
     data |-> [x \in {stream_name} |-> cs[stream_name]], slice |-> n]

\* _checkpoint_state: the STATE message built from the updated connector state
checkpoint_state(stream_name, cs, n) ==
    [type |-> "STATE", stream |-> stream_name, ts |-> None,
     data |-> cs, slice |-> n]

\* the configured catalogs: distinct streams in the order of discovery, each
\* with a sync mode
ConfiguredStreams ==
    [name : {CatalogNames[i] : i \in DOMAIN CatalogNames},
     sync_mode : SyncModes, cursor_field : FieldPaths, primary_key : KeyPaths,
     interval_override : {None} \cup 1..MaxInterval]

\* the configured streams whose cursor field and primary key are the
\* top-level property "ts"
TsStreams ==
    {c \in ConfiguredStreams :
        /\ c.cursor_field = <<"ts">> /\ c.primary_key = << <<"ts">> >>
        /\ c.interval_override = None}

Catalogs ==
    {c \in UNION {[1..k -> TsStreams] : k \in 1..MaxCatalog} :
        \A i, j \in DOMAIN c :
            i < j => CatalogIndex(c[i].name) < CatalogIndex(c[j].name)}

\* the catalogs of one configured stream, with any cursor field and key
PathCatalogs ==
    {<<c>> : c \in {x \in ConfiguredStreams : x.interval_override = None}}

\* the catalogs of one configured stream, with or without a checkpoint
\* interval of its own
OverrideCatalogs ==
    {<<c>> : c \in {x \in ConfiguredStreams :
                       /\ x.cursor_field = <<"ts">>
                       /\ x.primary_key = << <<"ts">> >>}}

\* the failure log before any failure, and the entry read's except clause
\* writes: the name its message holds and the record count it holds (None:
\* the message holds no count)
NoLog == [name |-> "", records |-> None]
exception_log == [name |-> SourceName, records |-> None]

\* the seed states of a caller: at most one stream seeded
Seeds ==
    {NoData} \cup
    {[n \in {s} |-> b] : s \in StreamNames, b \in SeedBlobs}

\* ------------------------------------------------------------------ state
VARIABLES
    catalog,            \* the configured catalog of the run
    seed,               \* the state argument of read
    seedEmitted,        \* TRUE iff seed is the final state of a first run
    connector_state,    \* read's deep copy of the seed, as updated
    pc,                 \* where the generator stands
    idx,                \* index of the configured stream being read
    use_incremental,    \* _read_stream's decision for that stream
    stream_state,       \* _read_incremental's stream_state
    aliased,            \* stream_state is the object connector_state holds
    checkpoint_interval,\* _read_incremental's checkpoint_interval
    slices,             \* what is left of the slices iterator
    slices_read,        \* slices the iterator has produced for the stream
    slice,              \* the slice being read
    sliceNo,            \* ordinal of that slice in the run
    record_counter,     \* _read_incremental's per-slice counter
    latest,             \* the record the generator is suspended on
    stream_records,     \* _read_stream's record_counter
    budget,             \* thread replies the API still hands out
    output,             \* the messages handed to the caller so far
    requested,          \* the streams an HTTP request was issued for
    failure_log         \* what logger.exception has written

\* the state of the operations other than read
VARIABLES
    processor,          \* the cursor field and primary key of a StreamProcessor
    resolved,           \* what its get_cursor_field / get_primary_key did
    connection,         \* what check_connection did in the last check
    statuses,           \* the statuses check has returned
    page_token,         \* read_records' page token of the slice
    page_requests,      \* the parameters of the requests sent for the slice
    page_responses,     \* the responses received for the slice
    pagination_complete,\* read_records' loop flag
    request,            \* where read stood when the request in flight was sent
    attempts,           \* times the request in flight was sent
    last_response,      \* the response to its last attempt
    backoff,            \* what backoff_time returned for that response
    chunk_from,         \* the start_date chunk_date_range was called with
    chunk_start_date,   \* its local start_date
    intervals,          \* its local intervals
    chunk_pc,           \* where it stands
    joined,             \* the channels a join request was issued for
    sheet,              \* the sheet the Smartsheets API holds
    sheet_pc,           \* where SourceSmartsheets.read stands
    sheet_stream,       \* the configured stream it reads
    sheet_row,          \* the row of the sheet it has come to
    sheet_messages,     \* the messages it has yielded
    sheet_log,          \* what SourceSmartsheets has logged as errors
    sheet_status,       \* what SourceSmartsheets.check returned
    client,             \* a BaseClient: its class's functions and states
    listed,             \* what BaseClient.streams has yielded
    read_stream_result  \* what a pull from BaseClient.read_stream gave

config == <<catalog, server, replies, ordered>>

\* the variables read and its streams leave alone
resolvevars == <<processor, resolved>>
checkvars == <<connection, statuses>>
pagevars == <<page_token, page_requests, page_responses,
              pagination_complete>>
retryvars == <<request, attempts, last_response, backoff>>
chunkvars == <<chunk_from, chunk_start_date, intervals, chunk_pc>>
joinvars == <<joined>>
sheetvars == <<sheet, sheet_pc, sheet_stream, sheet_row, sheet_messages,
               sheet_log, sheet_status>>
clientvars == <<client, listed, read_stream_result>>
corevars == <<resolvevars, checkvars, pagevars, retryvars>>
aside == <<corevars, chunkvars, joinvars, sheetvars, clientvars>>

\* the variables of read
readvars == <<config, seed, seedEmitted, connector_state, pc, idx,
              use_incremental, stream_state, aliased, checkpoint_interval,
              slices, slices_read, slice, sliceNo, record_counter, latest,
              stream_records, budget, output, requested, failure_log>>

vars == <<readvars, aside>>

cfg == catalog[idx]
stream_name == cfg.name

\* the number of records read_records has yielded for the slice being read
slice_records ==
    Cardinality({i \in DOMAIN output :
                    output[i].type = "RECORD" /\ output[i].slice = sliceNo})

\* the state of a run before its first message is pulled
Start(c, s, srv, rep, ord, n) ==
    /\ catalog = c
    /\ seed = s
    /\ server = srv
    /\ replies = rep
    /\ ordered = ord
    /\ budget = n
    /\ seedEmitted = FALSE
    /\ connector_state = NoData
    /\ pc = "read"
    /\ idx = 1
    /\ use_incremental = FALSE
    /\ stream_state = EmptyDict
    /\ aliased = FALSE
    /\ checkpoint_interval = 0
    /\ slices = << >>
    /\ slices_read = 0
    /\ slice = NoSlice
    /\ sliceNo = 0
    /\ record_counter = 0
    /\ latest = None
    /\ stream_records = 0
    /\ output = << >>
    /\ requested = {}
    /\ failure_log = NoLog

\* a StreamProcessor that was given neither a cursor field nor a primary key
NoProcessor == [cursor_field |-> << >>, primary_key |-> << >>]
\* no method was called yet, no result
NoResult == [method |-> "", raised |-> "", value |-> << >>]
\* check_connection was not called yet
NoConnection == [raised |-> FALSE, flag |-> FALSE, error |-> [type |-> ""]]
\* a Python dict without a key: no page token
EmptyParams == [k \in {} |-> ""]
\* a dict key a response does not hold (dict.get then yields None)
Undefined == "<undefined>"
\* no request is in flight
NoRequest == << >>
\* no request was sent yet, no response
NoResponse == [status_code |-> 0, retry_after |-> Undefined]

\* chunk_date_range is not running
ChunksAtRest ==
    /\ chunk_from = None
    /\ chunk_start_date = None
    /\ intervals = << >>
    /\ chunk_pc = "idle"

\* SourceSlack.streams was not called
JoinAtRest == joined = {}

\* no sheet is asked for
NoSheet == [fetch |-> "", rows |-> << >>, streams |-> 0]
\* no AirbyteConnectionStatus was returned
NoStatus == [status |-> "", message |-> None]

\* SourceSmartsheets is not running
SheetAtRest ==
    /\ sheet = NoSheet
    /\ sheet_pc = "idle"
    /\ sheet_stream = 0
    /\ sheet_row = 0
    /\ sheet_messages = << >>
    /\ sheet_log = << >>
    /\ sheet_status = NoStatus

\* no client class
NoClient == [functions |-> {}, has_state |-> {}]

\* no BaseClient exists
ClientAtRest ==
    /\ client = NoClient
    /\ listed = << >>
    /\ read_stream_result = << >>

\* no operation of the processor or of HttpStream has been asked for
CoreAtRest ==
    /\ processor = NoProcessor
    /\ resolved = NoResult
    /\ connection = NoConnection
    /\ statuses = << >>
    /\ page_token = EmptyParams
    /\ page_requests = << >>
    /\ page_responses = << >>
    /\ pagination_complete = FALSE
    /\ request = NoRequest
    /\ attempts = 0
    /\ last_response = NoResponse
    /\ backoff = None

\* no other operation has been asked of the source or of the processor
AsideAtRest ==
    /\ CoreAtRest
    /\ ChunksAtRest
    /\ JoinAtRest
    /\ SheetAtRest
    /\ ClientAtRest

Init ==
    /\ \E c \in Catalogs, s \in Seeds :
          Start(c, s, ServerTs, ReplyTs, FALSE, MaxRecords)
    /\ AsideAtRest

\* an interval test that fires one record early
IntermediateCheckpoint_early(interval, counter) ==
    interval # 0 /\ (counter + 1) % interval = 0

\* an interval test that fires after every record
IntermediateCheckpoint_every(interval, counter) ==
    interval # 0

\* an interval test that takes a missing interval as "after every record"
IntermediateCheckpoint_zero(interval, counter) ==
    interval = 0 \/ counter % interval = 0

\* `if checkpoint_interval and record_counter % checkpoint_interval == 0`
IntermediateCheckpoint(interval, counter) ==
    interval # 0 /\ counter % interval = 0

\* a read that starts from an empty connector state, whatever it is given
StartRead_noSeed ==
    /\ pc = "read"
    /\ connector_state' = NoData
    /\ pc' = "stream"
    /\ idx' = 1
    /\ UNCHANGED <<aside, config, seed, seedEmitted, use_incremental,
                   stream_state,
                   aliased, checkpoint_interval, slices, slices_read, slice,
                   sliceNo, record_counter, latest, stream_records, budget,
                   output, requested, failure_log>>

\* read, up to the loop over the catalog: connector_state = deepcopy(state)
StartRead ==
    /\ pc = "read"
    /\ connector_state' = seed
    /\ pc' = "stream"
    /\ idx' = 1
    /\ UNCHANGED <<aside, config, seed, seedEmitted, use_incremental,
                   stream_state,
                   aliased, checkpoint_interval, slices, slices_read, slice,
                   sliceNo, record_counter, latest, stream_records, budget,
                   output, requested, failure_log>>

\* a decision that ignores the configured sync mode
UseIncremental_supportOnly(c) ==
    SupportsIncremental(c.name)

\* a decision that ignores what the stream supports
UseIncremental_modeOnly(c) ==
    c.sync_mode = "incremental"

\* _read_stream's decision
UseIncremental(c) ==
    c.sync_mode = "incremental" /\ SupportsIncremental(c.name)

\* read's except clause: the exception is logged and raised again, which
\* ends the generators of the stream and of the run
Abort ==
    /\ failure_log' = exception_log
    /\ pc' = "error"
    /\ use_incremental' = FALSE
    /\ stream_state' = EmptyDict
    /\ aliased' = FALSE
    /\ checkpoint_interval' = 0
    /\ slices' = << >>
    /\ slices_read' = 0
    /\ slice' = NoSlice
    /\ record_counter' = 0
    /\ latest' = None
    /\ stream_records' = 0
    /\ UNCHANGED <<aside, config, seed, seedEmitted, connector_state, idx,
                   sliceNo,
                   budget, output>>

\* a loop over the catalog that looks up the instances of all configured
\* streams before it reads the first
BeginStream_validate ==
    /\ pc = "stream"
    /\ idx <= Len(catalog)
    /\ IF \E i \in idx..Len(catalog) : ~Implemented(catalog[i].name)
       THEN Abort
       ELSE /\ use_incremental' = UseIncremental(cfg)
            /\ stream_records' = 0
            /\ slices_read' = 0
            /\ IF UseIncremental(cfg)
               THEN /\ stream_state' =
                          IF stream_name \in DOMAIN connector_state
                          THEN connector_state[stream_name]
                          ELSE EmptyDict
                    /\ aliased' = (stream_name \in DOMAIN connector_state)
                    /\ checkpoint_interval' \in 0..MaxInterval
                    /\ slices' = stream_slices(stream_name, stream_state')
               ELSE /\ stream_state' = EmptyDict
                    /\ aliased' = FALSE
                    /\ checkpoint_interval' = 0
                    /\ slices' = stream_slices(stream_name, EmptyDict)
            /\ pc' = "slices"
            /\ UNCHANGED <<aside, config, seed, seedEmitted, connector_state,
                           idx,
                           slice, sliceNo, record_counter, latest, budget,
                           output, failure_log>>
    /\ UNCHANGED requested

\* read's loop body and _read_stream / _read_incremental / _read_full_refresh
\* up to their slice loop; a configured name without an instance is a
\* KeyError inside the try
BeginStream ==
    /\ pc = "stream"
    /\ idx <= Len(catalog)
    /\ IF ~Implemented(stream_name)
       THEN Abort
       ELSE /\ use_incremental' = UseIncremental(cfg)
            /\ stream_records' = 0
            /\ slices_read' = 0
            /\ IF UseIncremental(cfg)
               THEN /\ stream_state' =
                          IF stream_name \in DOMAIN connector_state
                          THEN connector_state[stream_name]
                          ELSE EmptyDict
                    /\ aliased' = (stream_name \in DOMAIN connector_state)
                    /\ checkpoint_interval' \in 0..MaxInterval
                    /\ slices' = stream_slices(stream_name, stream_state')
               ELSE /\ stream_state' = EmptyDict
                    /\ aliased' = FALSE
                    /\ checkpoint_interval' = 0
                    /\ slices' = stream_slices(stream_name, EmptyDict)
            /\ pc' = "slices"
            /\ UNCHANGED <<aside, config, seed, seedEmitted, connector_state,
                           idx,
                           slice, sliceNo, record_counter, latest, budget,
                           output, failure_log>>
    /\ UNCHANGED requested

\* the loop over the catalog ends: "Finished syncing"
EndRead ==
    /\ pc = "stream"
    /\ idx > Len(catalog)
    /\ pc' = "done"
    /\ UNCHANGED <<aside, config, seed, seedEmitted, connector_state, idx,
                   use_incremental, stream_state, aliased,
                   checkpoint_interval, slices, slices_read, slice, sliceNo,
                   record_counter, latest, stream_records, budget, output,
                   requested, failure_log>>

\* pulling the slices iterator issues HTTP requests: ChannelMembers reads
\* the Channels stream, Threads reads the messages of the chunks it has;
\* ChannelMessages computes its chunks
SlicingRequests ==
    \/ stream_name = "channel_members"
    \/ stream_name = "threads" /\ slices # << >>

\* a slices iterator that is pulled while the records of the slice before
\* are still being read
NextSlice_eager ==
    /\ pc \in {"slices", "records"}
    /\ IF stream_name = "threads"
       THEN /\ ParentChunks(slices) # {}
            /\ LET j == Min(ParentChunks(slices))
                   t == Min(ChunkTs(slices[j]))
               IN /\ slice' = [kind |-> "thread", oldest |-> t, latest |-> t]
                  /\ slices' = SubSeq(slices, j + 1, Len(slices))
       ELSE /\ slices # << >>
            /\ slice' = Head(slices)
            /\ slices' = Tail(slices)
    /\ slices_read' = slices_read + 1
    /\ latest' = None
    /\ sliceNo' = sliceNo + 1
    /\ record_counter' = 0
    /\ pc' = "records"
    /\ requested' = IF SlicingRequests THEN requested \cup {stream_name}
                    ELSE requested
    /\ UNCHANGED <<aside, config, seed, seedEmitted, connector_state, idx,
                   use_incremental, stream_state, aliased,
                   checkpoint_interval, stream_records, budget, output,
                   failure_log>>

\* `for slice in slices`: the iterator yields the next slice.  For Threads a
\* slice is the parent message the nested loops find in the next chunk that
\* holds one.
NextSlice ==
    /\ pc = "slices"
    /\ IF stream_name = "threads"
       THEN /\ ParentChunks(slices) # {}
            /\ LET j == Min(ParentChunks(slices))
                   t == Min(ChunkTs(slices[j]))
               IN /\ slice' = [kind |-> "thread", oldest |-> t, latest |-> t]
                  /\ slices' = SubSeq(slices, j + 1, Len(slices))
       ELSE /\ slices # << >>
            /\ slice' = Head(slices)
            /\ slices' = Tail(slices)
    /\ slices_read' = slices_read + 1
    /\ latest' = None
    /\ sliceNo' = sliceNo + 1
    /\ record_counter' = 0
    /\ pc' = "records"
    /\ requested' = IF SlicingRequests THEN requested \cup {stream_name}
                    ELSE requested
    /\ UNCHANGED <<aside, config, seed, seedEmitted, connector_state, idx,
                   use_incremental, stream_state, aliased,
                   checkpoint_interval, stream_records, budget, output,
                   failure_log>>

\* a loop over the slices that is left while slices remain
EndStream_early ==
    /\ pc = "slices"
    /\ idx' = idx + 1
    /\ pc' = "stream"
    /\ slices' = << >>
    /\ slice' = NoSlice
    /\ stream_state' = EmptyDict
    /\ aliased' = FALSE
    /\ checkpoint_interval' = 0
    /\ use_incremental' = FALSE
    /\ record_counter' = 0
    /\ slices_read' = 0
    /\ latest' = None
    /\ stream_records' = 0
    /\ requested' = IF SlicingRequests THEN requested \cup {stream_name}
                    ELSE requested
    /\ UNCHANGED <<aside, config, seed, seedEmitted, connector_state,
                   sliceNo, budget, output, failure_log>>

\* the slices iterator is exhausted: the stream is read, "Read n records"
EndStream ==
    /\ pc = "slices"
    /\ IF stream_name = "threads" THEN ParentChunks(slices) = {}
       ELSE slices = << >>
    /\ idx' = idx + 1
    /\ pc' = "stream"
    /\ slices' = << >>
    /\ slice' = NoSlice
    /\ stream_state' = EmptyDict
    /\ aliased' = FALSE
    /\ checkpoint_interval' = 0
    /\ use_incremental' = FALSE
    /\ record_counter' = 0
    /\ slices_read' = 0
    /\ latest' = None
    /\ stream_records' = 0
    /\ requested' = IF SlicingRequests THEN requested \cup {stream_name}
                    ELSE requested
    /\ UNCHANGED <<aside, config, seed, seedEmitted, connector_state,
                   sliceNo, budget, output, failure_log>>

\* `for record_data in records` yields a record: it is counted and handed to
\* the caller as a RECORD message
NextRecord ==
    /\ pc = "records"
    /\ \E t \in Pending(slice, latest, slice_records, budget) :
          /\ latest' = t
          /\ output' = Append(output, as_airbyte_record(stream_name, t, sliceNo))
    /\ record_counter' = IF use_incremental THEN record_counter + 1
                         ELSE record_counter
    /\ stream_records' = stream_records + 1
    /\ budget' = IF slice.kind = "thread" THEN budget - 1 ELSE budget
    /\ pc' = IF use_incremental THEN "yield_record" ELSE "records"
    /\ requested' = requested \cup {stream_name}
    /\ UNCHANGED <<aside, config, seed, seedEmitted, connector_state, idx,
                   use_incremental, stream_state, aliased,
                   checkpoint_interval, slices, slices_read, slice, sliceNo,
                   failure_log>>

\* a loop body that checkpoints the state as it was before the record
AfterRecord_stale ==
    /\ pc = "yield_record"
    /\ stream_state' = get_updated_state(stream_state, latest)
    /\ IF IntermediateCheckpoint(checkpoint_interval, record_counter)
       THEN /\ connector_state' =
                   Assign(connector_state, stream_name, stream_state)
            /\ aliased' = FALSE
            /\ output' = Append(output,
                   checkpoint_state(stream_name, connector_state', sliceNo))
       ELSE UNCHANGED <<connector_state, aliased, output>>
    /\ pc' = "records"
    /\ UNCHANGED <<aside, config, seed, seedEmitted, idx, use_incremental,
                   checkpoint_interval, slices, slices_read, slice, sliceNo,
                   record_counter, latest, stream_records, budget,
                   requested, failure_log>>

\* a loop body of a read that works on a shallow copy of the state it was
\* given: the entry of a seeded stream is the caller's dict, and
\* get_updated_state writes it in place
AfterRecord_shallow ==
    /\ pc = "yield_record"
    /\ LET new == get_updated_state(stream_state, latest)
           inplace == Truthy(stream_state)
           cs1 == IF aliased /\ inplace
                  THEN Assign(connector_state, stream_name, new)
                  ELSE connector_state
           ckpt == IntermediateCheckpoint(checkpoint_interval, record_counter)
       IN /\ stream_state' = new
          /\ seed' = IF stream_name \in DOMAIN seed /\ inplace
                     THEN Assign(seed, stream_name, new)
                     ELSE seed
          /\ IF ckpt
             THEN /\ connector_state' = Assign(cs1, stream_name, new)
                  /\ aliased' = TRUE
                  /\ output' = Append(output,
                        checkpoint_state(stream_name, connector_state', sliceNo))
             ELSE /\ connector_state' = cs1
                  /\ aliased' = (aliased /\ inplace)
                  /\ output' = output
    /\ pc' = "records"
    /\ UNCHANGED <<aside, config, seedEmitted, idx, use_incremental,
                   checkpoint_interval, slices, slices_read, slice, sliceNo,
                   record_counter, latest, stream_records, budget,
                   requested, failure_log>>

\* the caller pulls again after a RECORD of the incremental path: the state
\* is updated and, on the interval, checkpointed
AfterRecord ==
    /\ pc = "yield_record"
    /\ LET new == get_updated_state(stream_state, latest)
           inplace == Truthy(stream_state)
           cs1 == IF aliased /\ inplace
                  THEN Assign(connector_state, stream_name, new)
                  ELSE connector_state
           ckpt == IntermediateCheckpoint(checkpoint_interval, record_counter)
       IN /\ stream_state' = new
          /\ IF ckpt
             THEN /\ connector_state' = Assign(cs1, stream_name, new)
                  /\ aliased' = TRUE
                  /\ output' = Append(output,
                        checkpoint_state(stream_name, connector_state', sliceNo))
             ELSE /\ connector_state' = cs1
                  /\ aliased' = (aliased /\ inplace)
                  /\ output' = output
    /\ pc' = "records"
    /\ UNCHANGED <<aside, config, seed, seedEmitted, idx, use_incremental,
                   checkpoint_interval, slices, slices_read, slice, sliceNo,
                   record_counter, latest, stream_records, budget,
                   requested, failure_log>>

\* the records of the slice are exhausted: on the incremental path the state
\* is checkpointed, on the full-refresh path nothing is emitted
EndSlice ==
    /\ pc = "records"
    /\ Exhausted(slice, latest, slice_records)
    /\ IF use_incremental
       THEN /\ connector_state' =
                   Assign(connector_state, stream_name, stream_state)
            /\ aliased' = TRUE
            /\ output' = Append(output,
                   checkpoint_state(stream_name, connector_state', sliceNo))
       ELSE UNCHANGED <<connector_state, aliased, output>>
    /\ pc' = "slices"
    /\ slice' = NoSlice
    /\ latest' = None
    /\ requested' = requested \cup {stream_name}
    /\ UNCHANGED <<aside, config, seed, seedEmitted, idx, use_incremental,
                   stream_state, checkpoint_interval, slices, slices_read,
                   sliceNo, record_counter, stream_records, budget,
                   failure_log>>

\* an except clause that logs the exception and goes on with the next
\* configured stream
Fail_swallow ==
    /\ \/ pc = "records"
       \/ pc = "slices" /\ SlicingRequests
    /\ requested' = requested \cup {stream_name}
    /\ failure_log' = exception_log
    /\ pc' = "stream"
    /\ idx' = idx + 1
    /\ use_incremental' = FALSE
    /\ stream_state' = EmptyDict
    /\ aliased' = FALSE
    /\ checkpoint_interval' = 0
    /\ slices' = << >>
    /\ slices_read' = 0
    /\ slice' = NoSlice
    /\ record_counter' = 0
    /\ latest' = None
    /\ stream_records' = 0
    /\ UNCHANGED <<aside, config, seed, seedEmitted, connector_state, sliceNo,
                   budget, output>>

\* an exception escapes the slices iterator or read_records: an HTTP
\* request of the stream fails for good
Fail ==
    /\ \/ pc = "records"
       \/ pc = "slices" /\ SlicingRequests
    /\ requested' = requested \cup {stream_name}
    /\ Abort

\* the positions of the STATE messages in a sequence of messages
States(out) == {i \in DOMAIN out : out[i].type = "STATE"}

\* the caller invokes read a second time, with the data of the last STATE
\* message of the first run as the seed (the harness's latest_state and
\* call_read_with_state)
Reinvoke ==
    /\ pc = "done"
    /\ ~seedEmitted
    /\ States(output) # {}
    /\ seed' = output[MaxOf(States(output))].data
    /\ seedEmitted' = TRUE
    /\ connector_state' = NoData
    /\ pc' = "read"
    /\ idx' = 1
    /\ sliceNo' = 0
    /\ output' = << >>
    /\ requested' = {}
    /\ UNCHANGED <<aside, config, use_incremental, stream_state, aliased,
                   checkpoint_interval, slices, slices_read, slice,
                   record_counter, latest, stream_records, budget,
                   failure_log>>

Next ==
    \/ StartRead
    \/ BeginStream
    \/ EndRead
    \/ NextSlice
    \/ EndStream
    \/ NextRecord
    \/ AfterRecord
    \/ EndSlice
    \/ Fail
    \/ Reinvoke

Spec == Init /\ [][Next]_vars

\* the run of the resumption example: one Threads stream read incrementally
\* from an empty state, the message of day 1 starting a thread whose replies
\* have ts in 1..ExampleLen and are returned oldest first
InitExample ==
    /\ Start(<<[name |-> "threads", sync_mode |-> "incremental",
                cursor_field |-> <<"ts">>, primary_key |-> << <<"ts">> >>,
                interval_override |-> None]>>,
             NoData, {1}, 1..ExampleLen, TRUE, ExampleLen)
    /\ AsideAtRest

SpecExample == InitExample /\ [][Next]_vars

\* the runs of one configured stream whose cursor field and primary key are
\* any of the paths, from an empty state
InitPaths ==
    /\ \E c \in PathCatalogs :
          Start(c, NoData, ServerTs, ReplyTs, FALSE, MaxRecords)
    /\ AsideAtRest

SpecPaths == InitPaths /\ [][Next]_vars

\* the runs of one configured stream that may carry a checkpoint interval of
\* its own, from an empty state
InitOverride ==
    /\ \E c \in OverrideCatalogs :
          Start(c, NoData, ServerTs, ReplyTs, FALSE, MaxRecords)
    /\ AsideAtRest

SpecOverride == InitOverride /\ [][Next]_vars

\* a source that read is not asked to run on
NoRead == Start(<< >>, NoData, {}, {}, FALSE, 0)

\* ------------------------------------- StreamProcessor (base-normalization)
\* the property names of the paths a processor is given
Segments == {"updated_at", "nested_field", "_airbyte_emitted_at"}

\* the paths of 1..MaxPath segments
Paths == UNION {[1..k -> Segments] : k \in 1..MaxPath}

\* the primary keys of 1..MaxKey components
Keys == UNION {[1..k -> Paths] : k \in 1..MaxKey}

\* ValueError raised by a method
ValueError(m) == [method |-> m, raised |-> "ValueError", value |-> << >>]
\* the columns a method returned
Returned(m, columns) == [method |-> m, raised |-> "", value |-> columns]

\* get_cursor_field that resolves a nested path to its last segment
get_cursor_field_last(cursor_field) ==
    IF cursor_field = << >>
    THEN Returned("get_cursor_field", <<"_airbyte_emitted_at">>)
    ELSE Returned("get_cursor_field", <<cursor_field[Len(cursor_field)]>>)

\* StreamProcessor.get_cursor_field
get_cursor_field(cursor_field) ==
    IF cursor_field = << >>
    THEN Returned("get_cursor_field", <<"_airbyte_emitted_at">>)
    ELSE IF Len(cursor_field) = 1
    THEN Returned("get_cursor_field", <<cursor_field[1]>>)
    ELSE ValueError("get_cursor_field")

\* StreamProcessor.get_primary_key: the columns of the key, in its order
get_primary_key(primary_key) ==
    IF primary_key = << >> THEN ValueError("get_primary_key")
    ELSE IF \E k \in DOMAIN primary_key : Len(primary_key[k]) # 1
    THEN ValueError("get_primary_key")
    ELSE Returned("get_primary_key",
                  [k \in DOMAIN primary_key |-> primary_key[k][1]])

\* test_cursor_field / test_primary_key create a processor with a cursor
\* field and no key, or with a key and no cursor field
InitResolve ==
    /\ NoRead
    /\ \/ \E cf \in Paths \cup {<< >>} :
             processor = [cursor_field |-> cf, primary_key |-> << >>]
       \/ \E pk \in Keys :
             processor = [cursor_field |-> << >>, primary_key |-> pk]
    /\ resolved = NoResult
    /\ connection = NoConnection
    /\ statuses = << >>
    /\ page_token = EmptyParams
    /\ page_requests = << >>
    /\ page_responses = << >>
    /\ pagination_complete = FALSE
    /\ request = NoRequest
    /\ attempts = 0
    /\ last_response = NoResponse
    /\ backoff = None
    /\ ChunksAtRest
    /\ JoinAtRest
    /\ SheetAtRest
    /\ ClientAtRest

\* stream_processor.get_cursor_field(...) is called
GetCursorField ==
    /\ resolved' = get_cursor_field(processor.cursor_field)
    /\ UNCHANGED <<readvars, processor, checkvars, pagevars, retryvars,
                   chunkvars, joinvars, sheetvars, clientvars>>

\* stream_processor.get_primary_key(...) is called
GetPrimaryKey ==
    /\ resolved' = get_primary_key(processor.primary_key)
    /\ UNCHANGED <<readvars, processor, checkvars, pagevars, retryvars,
                   chunkvars, joinvars, sheetvars, clientvars>>

NextResolve ==
    \/ GetCursorField
    \/ GetPrimaryKey

SpecResolve == InitResolve /\ [][NextResolve]_vars

\* ---------------------------------------------------- AbstractSource.check
\* the objects check_connection hands back as its error or raises: None, a
\* message, an exception with a message, the KeyError of a missing key
ErrorValues ==
    {[type |-> "NoneType", text |-> ""],
     [type |-> "str",
      text |-> "There are no users in the given Slack instance"],
     [type |-> "Exception", text |-> "invalid_auth"],
     [type |-> "KeyError", text |-> "api_token"]}

\* the exceptions among them
Exceptions == {e \in ErrorValues : e.type \in {"Exception", "KeyError"}}

\* str(error): "None" for None, the message of a string or of an exception,
\* the repr of its key for a KeyError
Str(e) ==
    CASE e.type = "NoneType" -> "None"
      [] e.type = "KeyError" -> "'" \o e.text \o "'"
      [] OTHER -> e.text

\* what a call of check_connection does: it raises an exception, or returns
\* a flag and an error object
Outcomes ==
    {[raised |-> TRUE, flag |-> FALSE, error |-> e] : e \in Exceptions}
    \cup [raised : {FALSE}, flag : BOOLEAN, error : ErrorValues]

\* the message of a status that was given none
NoMessage == "<None>"

\* AirbyteConnectionStatus(status=..., message=...)
AirbyteConnectionStatus(status, message) ==
    [status |-> status, message |-> message]

\* check that looks at the flag only when check_connection hands back an
\* error object
check_errorOnly(o) ==
    IF o.raised THEN AirbyteConnectionStatus("FAILED", Str(o.error))
    ELSE IF o.error.type # "NoneType"
    THEN AirbyteConnectionStatus("FAILED", Str(o.error))
    ELSE AirbyteConnectionStatus("SUCCEEDED", NoMessage)

\* AbstractSource.check, o being what its call of check_connection does
check(o) ==
    IF o.raised THEN AirbyteConnectionStatus("FAILED", Str(o.error))
    ELSE IF ~o.flag THEN AirbyteConnectionStatus("FAILED", Str(o.error))
    ELSE AirbyteConnectionStatus("SUCCEEDED", NoMessage)

InitCheck == NoRead /\ AsideAtRest

\* the caller runs check
Check ==
    /\ Len(statuses) < MaxChecks
    /\ \E o \in Outcomes :
          /\ connection' = o
          /\ statuses' = Append(statuses, check(o))
    /\ UNCHANGED <<readvars, resolvevars, pagevars, retryvars,
                   chunkvars, joinvars, sheetvars, clientvars>>

NextCheck == Check

SpecCheck == InitCheck /\ [][NextCheck]_vars

\* ------------------------------------------- pagination of a slice's records
\* the cursors of the API
Cursors == {"c1", "c2"}

\* the JSON of a response, as far as pagination reads it: whether it holds
\* "response_metadata", and what that holds as "next_cursor"
Responses ==
    {r \in [response_metadata : BOOLEAN,
            next_cursor : Cursors \cup {"", Undefined}] :
        ~r.response_metadata => r.next_cursor = Undefined}

\* the API has no page after the one of response r
LastPage(r) == r.next_cursor \in {"", Undefined}

\* next_page_token that takes every next_cursor the response holds
next_page_token_notNone(response) ==
    LET next_cursor == IF response.response_metadata
                       THEN response.next_cursor
                       ELSE Undefined
    IN IF next_cursor # Undefined THEN [cursor |-> next_cursor]
       ELSE EmptyParams

\* SlackStream.next_page_token; a token is a dict, None the dict without key
next_page_token(response) ==
    LET next_cursor == IF response.response_metadata
                       THEN response.next_cursor
                       ELSE Undefined
    IN IF next_cursor # Undefined /\ next_cursor # ""
       THEN [cursor |-> next_cursor]
       ELSE EmptyParams

\* the limit SlackStream.request_params asks for
PageLimit == 100

\* SlackStream.request_params
request_params(token) ==
    LET params == [limit |-> PageLimit]
    IN IF token # EmptyParams THEN token @@ params ELSE params

InitPages == NoRead /\ AsideAtRest

\* read_records' loop body, first half: the request of the next page is
\* built from request_params and sent
SendRequest ==
    /\ ~pagination_complete
    /\ Len(page_requests) = Len(page_responses)
    /\ page_requests' = Append(page_requests, request_params(page_token))
    /\ UNCHANGED <<readvars, resolvevars, checkvars, retryvars,
                   chunkvars, joinvars, sheetvars, clientvars,
                   page_token, page_responses, pagination_complete>>

\* read_records' loop body, second half: the response arrives and the next
\* page token is taken from it
ReceiveResponse ==
    /\ Len(page_requests) = Len(page_responses) + 1
    /\ \E r \in Responses :
          /\ Len(page_requests) >= MaxPages => LastPage(r)
          /\ page_responses' = Append(page_responses, r)
          /\ IF next_page_token(r) # EmptyParams
             THEN /\ page_token' = next_page_token(r)
                  /\ pagination_complete' = FALSE
             ELSE /\ page_token' = page_token
                  /\ pagination_complete' = TRUE
    /\ UNCHANGED <<readvars, resolvevars, checkvars, retryvars,
                   chunkvars, joinvars, sheetvars, clientvars,
                   page_requests>>

NextPages ==
    \/ SendRequest
    \/ ReceiveResponse

SpecPages == InitPages /\ [][NextPages]_vars

\* --------------------------------------- retries of a request (HttpStream)
\* the status codes of the API's responses
StatusCodes == {200, 404, 429, 500}

\* the Retry-After header of a response, Undefined when it holds none
RetryAfter == {Undefined, "0", "30"}

\* a response, as far as sending a request reads it
HttpResponses == [status_code : StatusCodes, retry_after : RetryAfter]

\* int() of a header value
int(v) == CASE v = "0" -> 0 [] v = "30" -> 30

\* backoff_time that reads the header of every response
backoff_time_anyStatus(response) ==
    IF response.retry_after = Undefined THEN 0
    ELSE int(response.retry_after)

\* SlackStream.backoff_time: headers.get("Retry-After", 0) is the integer 0
\* when the header is missing
backoff_time(response) ==
    IF response.status_code = 429
    THEN IF response.retry_after = Undefined THEN 0
         ELSE int(response.retry_after)
    ELSE None

\* the response is an error (raise_for_status)
IsError(response) == response.status_code >= 400

\* HttpStream.should_retry: 429 and the server errors
should_retry(response) ==
    \/ response.status_code = 429
    \/ response.status_code >= 500 /\ response.status_code < 600

\* a request that was sent n times may be retried beyond the bound
TriesLeft_oneMore(n) == n - 1 < MaxTries + 1

\* a request that was sent n times may be retried once more
TriesLeft(n) == n - 1 < MaxTries

\* where read stands: the request it sends from there
RequestAt == <<idx, pc, sliceNo, stream_records>>

\* read stands where the next message needs an HTTP request
RequestPoint ==
    \/ pc = "records"
    \/ pc = "slices" /\ SlicingRequests

\* the sync of Channel Members, alone or followed by other streams, all in
\* full refresh
RetryCatalogs ==
    {c \in Catalogs :
        /\ c[1].name = "channel_members"
        /\ \A i \in DOMAIN c : c[i].sync_mode = "full_refresh"}

InitRetry ==
    /\ \E c \in RetryCatalogs :
          Start(c, NoData, ServerTs, ReplyTs, FALSE, MaxRecords)
    /\ AsideAtRest

\* _send_request: the request read needs next is sent
SendAttempt ==
    /\ RequestPoint
    /\ request # RequestAt
    /\ attempts' = 1
    /\ request' = RequestAt
    /\ \E r \in HttpResponses :
          /\ last_response' = r
          /\ backoff' = backoff_time(r)
    /\ UNCHANGED <<readvars, resolvevars, checkvars, pagevars,
                   chunkvars, joinvars, sheetvars, clientvars>>

\* the response is retryable and tries are left: after the delay the same
\* request is sent again
Retry ==
    /\ RequestPoint
    /\ request = RequestAt
    /\ should_retry(last_response)
    /\ TriesLeft(attempts)
    /\ attempts' = attempts + 1
    /\ request' = request
    /\ \E r \in HttpResponses :
          /\ last_response' = r
          /\ backoff' = backoff_time(r)
    /\ UNCHANGED <<readvars, resolvevars, checkvars, pagevars,
                   chunkvars, joinvars, sheetvars, clientvars>>

\* the response is no error: read goes on with what it holds
Deliver ==
    /\ RequestPoint
    /\ request = RequestAt
    /\ ~IsError(last_response)
    /\ \/ NextSlice
       \/ EndStream
       \/ NextRecord
       \/ EndSlice

\* the slices of a stream that computes them need no request
Compute ==
    /\ pc = "slices"
    /\ ~SlicingRequests
    /\ \/ NextSlice
       \/ EndStream

\* the response is an error that is not retried, or no try is left: the
\* exception leaves read_records and reaches read's except clause
RaiseFatal ==
    /\ RequestPoint
    /\ request = RequestAt
    /\ IsError(last_response)
    /\ ~should_retry(last_response) \/ ~TriesLeft(attempts)
    /\ Fail

NextRetry ==
    \/ StartRead
    \/ BeginStream
    \/ SendAttempt
    \/ Retry
    \/ Deliver
    \/ Compute
    \/ RaiseFatal
    \/ EndRead

SpecRetry == InitRetry /\ [][NextRetry]_vars

\* ------------------------------------------------ chunk_date_range, its loop
\* the start dates chunk_date_range is called with: from the default start
\* date to dates later than now
StartDates == default_start_date..(Future + 1)

\* a loop test that stops one day early
InRange_before(d) == d < Now

\* `while start_date <= now`
InRange(d) == d <= Now

\* chunk_date_range is called: intervals = [], now = pendulum.now()
InitChunks ==
    /\ NoRead
    /\ CoreAtRest /\ JoinAtRest /\ SheetAtRest /\ ClientAtRest
    /\ chunk_from \in StartDates
    /\ chunk_start_date = chunk_from
    /\ intervals = << >>
    /\ chunk_pc = "while"

\* the loop body: the day that begins at start_date is appended and
\* start_date moves on by one day
ChunkDay ==
    /\ chunk_pc = "while"
    /\ InRange(chunk_start_date)
    /\ intervals' =
          Append(intervals,
                 [kind |-> "chunk", oldest |-> Timestamp(chunk_start_date),
                  latest |-> Timestamp(chunk_start_date + 1)])
    /\ chunk_start_date' = chunk_start_date + 1
    /\ UNCHANGED <<readvars, corevars, joinvars, sheetvars, clientvars,
                   chunk_from, chunk_pc>>

\* the loop ends: `return intervals`
ChunkReturn ==
    /\ chunk_pc = "while"
    /\ ~InRange(chunk_start_date)
    /\ chunk_pc' = "return"
    /\ UNCHANGED <<readvars, corevars, joinvars, sheetvars, clientvars,
                   chunk_from, chunk_start_date, intervals>>

NextChunks ==
    \/ ChunkDay
    \/ ChunkReturn

\* a call of chunk_date_range runs on until it returns
SpecChunks == InitChunks /\ [][NextChunks]_vars /\ WF_vars(NextChunks)

\* ------------------------------------- SourceSlack.streams: joining channels
\* the public channels Channels.read_records lists
PublicChannels == 1..NumChannels

\* a streams that returns its list without joining a channel
AllJoined_skipped == TRUE

\* the loop over join_channels_stream.stream_slices() is exhausted
AllJoined == joined = PublicChannels

\* the catalogs of one configured stream
JoinCatalogs == {<<c>> : c \in TsStreams}

InitJoin ==
    /\ \E c \in JoinCatalogs :
          Start(c, NoData, ServerTs, ReplyTs, FALSE, MaxRecords)
    /\ AsideAtRest

\* streams' loop body, on read's first pull: the request of
\* conversations.join for the next channel is answered
JoinChannel ==
    /\ pc = "read"
    /\ ~AllJoined
    /\ \E c \in PublicChannels \ joined :
          /\ \A d \in PublicChannels \ joined : c <= d
          /\ joined' = joined \cup {c}
    /\ UNCHANGED <<readvars, corevars, chunkvars, sheetvars, clientvars>>

\* a join request fails: the exception leaves streams and read, outside
\* read's try
JoinFails ==
    /\ pc = "read"
    /\ ~AllJoined
    /\ pc' = "error"
    /\ UNCHANGED <<aside, config, seed, seedEmitted, connector_state, idx,
                   use_incremental, stream_state, aliased,
                   checkpoint_interval, slices, slices_read, slice, sliceNo,
                   record_counter, latest, stream_records, budget, output,
                   requested, failure_log>>

\* streams returns the stream instances and read enters its loop
StreamsReturn ==
    /\ AllJoined
    /\ StartRead

NextJoin ==
    \/ JoinChannel
    \/ JoinFails
    \/ StreamsReturn
    \/ BeginStream
    \/ EndRead
    \/ NextSlice
    \/ EndStream
    \/ NextRecord
    \/ AfterRecord
    \/ EndSlice
    \/ Fail

SpecJoin == InitJoin /\ [][NextJoin]_vars

\* ------------------------------------------------------- SourceSmartsheets
\* what Sheets.get_sheet does: it hands out the sheet, fails with the
\* ApiError of an unknown sheet (code 1006) or of another code, or fails
\* with another exception
Fetches == {"ok", "not_found", "api_error", "error"}

\* a row of the sheet: all its cells hold a value and it makes a RECORD; its
\* cells hold values that make no RECORD; a cell of it holds no "value"
RowKinds == {"ok", "unencodable", "no_value"}

\* the sheets of up to MaxRows rows, and the number of configured streams
\* they are read for
Sheets ==
    {sh \in [fetch : Fetches,
             rows : UNION {[1..k -> RowKinds] : k \in 0..MaxRows},
             streams : 1..MaxSheetStreams] :
        sh.fetch # "ok" => sh.rows = << >>}

\* a message SourceSmartsheets logs as an error
Logged(text, at) == [level |-> "ERROR", text |-> text, row |-> at]

\* the reason check logs for a failed fetch
reason(fetch) ==
    CASE fetch = "not_found" -> "name: 404 - message | Check your spreadsheet ID."
      [] fetch = "api_error" -> "name: code - message | Check your spreadsheet ID."
      [] OTHER -> "str(e)"

\* SourceSmartsheets.check
sheet_check(sh) ==
    IF sh.fetch = "ok" THEN [status |-> "SUCCEEDED", message |-> None]
    ELSE [status |-> "FAILED", message |-> None]

InitSheets ==
    /\ NoRead
    /\ CoreAtRest /\ ChunksAtRest /\ JoinAtRest /\ ClientAtRest
    /\ sheet \in Sheets
    /\ sheet_pc = "idle"
    /\ sheet_stream = 0
    /\ sheet_row = 0
    /\ sheet_messages = << >>
    /\ sheet_log = << >>
    /\ sheet_status = NoStatus

\* the caller runs check
SheetCheck ==
    /\ sheet_pc = "idle"
    /\ sheet_status = NoStatus
    /\ sheet_status' = sheet_check(sheet)
    /\ sheet_log' = IF sheet.fetch = "ok" THEN sheet_log
                    ELSE Append(sheet_log, Logged(reason(sheet.fetch), 0))
    /\ UNCHANGED <<readvars, corevars, chunkvars, joinvars, clientvars,
                   sheet, sheet_pc, sheet_stream, sheet_row, sheet_messages>>

\* the caller pulls the first message of read
SheetRead ==
    /\ sheet_pc = "idle"
    /\ sheet_pc' = "stream"
    /\ sheet_stream' = 1
    /\ UNCHANGED <<readvars, corevars, chunkvars, joinvars, clientvars,
                   sheet, sheet_row, sheet_messages, sheet_log, sheet_status>>

\* read's loop body up to the loop over the rows: the sheet is fetched; a
\* failure is logged and raised again
GetSheet ==
    /\ sheet_pc = "stream"
    /\ sheet_stream <= sheet.streams
    /\ IF sheet.fetch = "ok"
       THEN /\ sheet_pc' = "rows"
            /\ sheet_row' = 1
            /\ sheet_log' = sheet_log
       ELSE /\ sheet_pc' = "raised"
            /\ sheet_row' = sheet_row
            /\ sheet_log' =
                  Append(sheet_log, Logged("Could not read smartsheet", 0))
    /\ UNCHANGED <<readvars, corevars, chunkvars, joinvars, clientvars,
                   sheet, sheet_stream, sheet_messages, sheet_status>>

\* the body of `for row in sheet["rows"]`: the values of the cells are
\* taken outside the inner try, the RECORD is built and yielded inside it
Row ==
    /\ sheet_pc = "rows"
    /\ sheet_row <= Len(sheet.rows)
    /\ CASE sheet.rows[sheet_row] = "ok" ->
              /\ sheet_messages' =
                    Append(sheet_messages,
                           [type |-> "RECORD", stream |-> sheet_stream,
                            row |-> sheet_row])
              /\ sheet_log' = sheet_log
              /\ sheet_row' = sheet_row + 1
              /\ sheet_pc' = "rows"
         [] sheet.rows[sheet_row] = "unencodable" ->
              /\ sheet_messages' = sheet_messages
              /\ sheet_log' =
                    Append(sheet_log,
                           Logged("Unable to encode row", sheet_row))
              /\ sheet_row' = sheet_row + 1
              /\ sheet_pc' = "rows"
         [] OTHER ->
              /\ sheet_messages' = sheet_messages
              /\ sheet_log' =
                    Append(sheet_log,
                           Logged("Could not read smartsheet", sheet_row))
              /\ sheet_row' = sheet_row
              /\ sheet_pc' = "raised"
    /\ UNCHANGED <<readvars, corevars, chunkvars, joinvars, clientvars,
                   sheet, sheet_stream, sheet_status>>

\* the rows are exhausted: the next configured stream
EndRows ==
    /\ sheet_pc = "rows"
    /\ sheet_row > Len(sheet.rows)
    /\ sheet_pc' = "stream"
    /\ sheet_stream' = sheet_stream + 1
    /\ sheet_row' = 0
    /\ UNCHANGED <<readvars, corevars, chunkvars, joinvars, clientvars,
                   sheet, sheet_messages, sheet_log, sheet_status>>

\* the loop over the catalog ends: "Finished syncing spreadsheet"
SheetDone ==
    /\ sheet_pc = "stream"
    /\ sheet_stream > sheet.streams
    /\ sheet_pc' = "done"
    /\ UNCHANGED <<readvars, corevars, chunkvars, joinvars, clientvars,
                   sheet, sheet_stream, sheet_row, sheet_messages, sheet_log,
                   sheet_status>>

NextSheets ==
    \/ SheetCheck
    \/ SheetRead
    \/ GetSheet
    \/ Row
    \/ EndRows
    \/ SheetDone

SpecSheets == InitSheets /\ [][NextSheets]_vars

\* -------------------------------------------------------------- BaseClient
\* names are sequences of pieces, so that a prefix can be tested and cut off
prefix == <<"stream", "_", "_">>

\* the functions a client class may define, in the order of their names
\* (inspect.getmembers sorts by name)
ClassFunctions ==
    << <<"health_check">>,
       <<"stream", "_", "_", "orders">>,
       <<"stream", "_", "_", "users">>,
       <<"stream", "_", "users">>,
       <<"users">> >>

\* the stream names a caller may ask for
ClientStreamNames == {<<"orders">>, <<"users">>, <<"stats">>}

\* the client classes: the functions they define, and the names for which
\* their stream_has_state answers true
Clients ==
    [functions : SUBSET {ClassFunctions[i] : i \in DOMAIN ClassFunctions},
     has_state : SUBSET ClientStreamNames]

\* str.startswith
startswith(name, pre) ==
    /\ Len(name) >= Len(pre)
    /\ SubSeq(name, 1, Len(pre)) = pre

\* inspect.getmembers(self.__class__, predicate=inspect.isfunction)
getmembers(c) == SelectSeq(ClassFunctions, LAMBDA f : f \in c.functions)

\* BaseClient._enumerate_methods: the names of the mapping, in its order
enumerate_methods(c) ==
    LET methods == SelectSeq(getmembers(c), LAMBDA f : startswith(f, prefix))
    IN  [i \in DOMAIN methods |->
            SubSeq(methods[i], Len(prefix) + 1, Len(methods[i]))]

\* stream_has_state of the client class
stream_has_state(c, name) == name \in c.has_state

\* the stream that never has a source defined cursor
AirbyteStream_noCursor(c, name) ==
    [name |-> name,
     supported_sync_modes |->
        IF stream_has_state(c, name) THEN <<"full_refresh", "incremental">>
        ELSE <<"full_refresh">>,
     source_defined_cursor |-> FALSE]

\* the body of the loop of BaseClient.streams
AirbyteStream(c, name) ==
    [name |-> name,
     supported_sync_modes |->
        IF stream_has_state(c, name) THEN <<"full_refresh", "incremental">>
        ELSE <<"full_refresh">>,
     source_defined_cursor |-> stream_has_state(c, name)]

\* BaseClient.streams
streams(c) ==
    LET names == enumerate_methods(c)
    IN  [i \in DOMAIN names |-> AirbyteStream(c, names[i])]

\* BaseClient._get_stream_method: is there a method of that name
get_stream_method(c, name) ==
    \E i \in DOMAIN enumerate_methods(c) : enumerate_methods(c)[i] = name

\* what a caller sees of read_stream(name) when the method yields n
\* messages: the call, then the records or the exception
read_stream(c, name, n) ==
    <<[kind |-> "call", value |-> name]>> \o
    (IF get_stream_method(c, name)
     THEN [i \in 1..n |-> [kind |-> "record", value |-> <<i>>]]
     ELSE <<[kind |-> "raise", value |-> <<"ValueError">>]>>)

InitClient ==
    /\ NoRead
    /\ CoreAtRest /\ ChunksAtRest /\ JoinAtRest /\ SheetAtRest
    /\ client \in Clients
    /\ listed = << >>
    /\ read_stream_result = << >>

\* the caller lists the streams
ListStreams ==
    /\ listed = << >>
    /\ listed' = streams(client)
    /\ UNCHANGED <<readvars, corevars, chunkvars, joinvars, sheetvars,
                   client, read_stream_result>>

\* the caller reads a stream to its end
ReadStream ==
    /\ read_stream_result = << >>
    /\ \E name \in ClientStreamNames, n \in 0..MaxRecords :
          read_stream_result' = read_stream(client, name, n)
    /\ UNCHANGED <<readvars, corevars, chunkvars, joinvars, sheetvars,
                   client, listed>>

NextClient ==
    \/ ListStreams
    \/ ReadStream

SpecClient == InitClient /\ [][NextClient]_vars

\* ------------------------------------------------------------- properties
\* the configured stream at position i takes the incremental path
IncrementalAt(i) ==
    /\ catalog[i].sync_mode = "incremental"
    /\ catalog[i].name \in {"channel_messages", "threads"}

\* the stream called s is configured and takes the incremental path
IsIncremental(s) ==
    \E i \in DOMAIN catalog : catalog[i].name = s /\ IncrementalAt(i)

\* the configured stream at position i has been read to its end
Finished(i) == pc = "done" \/ (pc # "read" /\ i < idx)

\* a slice of the stream being read has just been read to its end
SliceDone == pc = "slices" /\ slices_read > 0

IsRecord(m) == m.type = "RECORD"
IsState(m) == m.type = "STATE"

\* the messages of the slice with ordinal n
SliceMessages(n) == SelectSeq(output, LAMBDA m : m.slice = n)

\* the cursor values of the records of stream s emitted so far
RecordTs(s) ==
    {output[i].ts : i \in {j \in DOMAIN output :
                              IsRecord(output[j]) /\ output[j].stream = s}}

\* the seed of stream s is dated after every message of the server
FutureDated(s) ==
    /\ s \in DOMAIN seed
    /\ seed[s].ts > Now \/ seed[s].start_ts > Now

\* C1: when a slice of n records has been read on the incremental path with
\* a checkpoint interval k >= 1, the messages of the slice are its n records
\* with a STATE after each k-th record and one more STATE at the end:
\* n + floor(n/k) + 1 messages, the STATEs at the multiples of k + 1 and at
\* the last position.
C1_CheckpointCadence ==
    (SliceDone /\ use_incremental /\ checkpoint_interval >= 1) =>
        LET M == SliceMessages(sliceNo)
            n == record_counter
            k == checkpoint_interval
        IN /\ Len(M) = n + (n \div k) + 1
           /\ \A i \in 1..Len(M) :
                 /\ M[i].stream = stream_name
                 /\ IsState(M[i]) <=> (i = Len(M) \/ i % (k + 1) = 0)

\* a slice whose record count is a multiple of the interval has been read
C1_Witness ==
    /\ SliceDone /\ use_incremental
    /\ checkpoint_interval = 2 /\ record_counter = 2
    /\ Len(SliceMessages(sliceNo)) = 4

\* C2: every RECORD of a stream read incrementally that precedes a STATE
\* message has a cursor value at most the cursor value that STATE message
\* records for the stream.  Messages are appended one at a time and never
\* changed, so the property is stated of the STATE message emitted last: it
\* holds in every reachable state iff it holds of every pair of messages.
C2_RecordsAtMostState ==
    (output # << >> /\ IsState(output[Len(output)])) =>
        \A i \in DOMAIN output :
            (IsRecord(output[i]) /\ IsIncremental(output[i].stream)) =>
                /\ output[i].stream \in DOMAIN output[Len(output)].data
                /\ output[i].ts <=
                      output[Len(output)].data[output[i].stream].ts

\* a STATE preceded by two records that arrived newest first
C2_Witness ==
    \E i \in DOMAIN output :
        /\ i + 2 \in DOMAIN output
        /\ IsRecord(output[i]) /\ IsRecord(output[i + 1])
        /\ IsState(output[i + 2])
        /\ output[i].ts > output[i + 1].ts
        /\ IsIncremental(output[i].stream)

\* C3: a run seeded with the data of an emitted STATE message yields, for a
\* stream read incrementally, no RECORD whose cursor value is below the
\* seeded cursor value of the stream.
C3_NoRecordBelowSeed ==
    seedEmitted =>
        \A i \in DOMAIN output :
            LET s == output[i].stream
            IN (IsRecord(output[i]) /\ IsIncremental(s)
                  /\ s \in DOMAIN seed /\ seed[s].ts # None) =>
                   output[i].ts >= seed[s].ts

\* C4: a finished run in which a stream read incrementally was seeded with a
\* future-dated state has emitted at least one STATE message.
C4_FutureStateEmitsState ==
    (pc = "done" /\ \E i \in DOMAIN catalog :
                        IncrementalAt(i) /\ FutureDated(catalog[i].name)) =>
        \E j \in DOMAIN output : IsState(output[j])

\* C5: a stream read incrementally from a future-dated seed yields no RECORD,
\* and every STATE message carries the seeded value for the stream.
C5_FutureStateNoRecords ==
    \A s \in StreamNames :
        (IsIncremental(s) /\ FutureDated(s)) =>
            \A j \in DOMAIN output :
                /\ IsRecord(output[j]) => output[j].stream # s
                /\ IsState(output[j]) =>
                      s \in DOMAIN output[j].data /\ output[j].data[s] = seed[s]

\* C6: every message of a stream read on the full-refresh path is a RECORD,
\* and a run all of whose streams take the full-refresh path has emitted no
\* STATE message.
C6_FullRefreshPurity ==
    /\ \A j \in DOMAIN output :
          ~IsIncremental(output[j].stream) => IsRecord(output[j])
    /\ (\A i \in DOMAIN catalog : ~IncrementalAt(i)) =>
          \A j \in DOMAIN output : ~IsState(output[j])

\* a finished run of full-refresh streams only, one of them able to sync
\* incrementally, that emitted a record
C6_Witness ==
    /\ pc = "done"
    /\ \A i \in DOMAIN catalog : ~IncrementalAt(i)
    /\ \E j \in DOMAIN output :
          IsRecord(output[j]) /\ output[j].stream = "channel_messages"

SeedTs(s) ==
    IF s \in DOMAIN seed /\ seed[s].ts # None THEN seed[s].ts ELSE 0

Seen(m) ==
    IF IsRecord(m) THEN <<"RECORD", m.ts>>
    ELSE <<"STATE", m.data[m.stream].ts>>

\* C8: one slice with the records ts = 1, 2, 3, 4, 5 read from an empty
\* state with checkpoint interval 2 is emitted as R1 R2 STATE(2) R3 R4 STATE(4) R5 STATE(5).
C8_ResumptionExample ==
    (seed = NoData /\ SliceDone /\ slices_read = 1 /\ checkpoint_interval = 2
       /\ record_counter = 5 /\ RecordTs("threads") = 1..5) =>
        [i \in DOMAIN output |-> Seen(output[i])] =
            << <<"RECORD", 1>>, <<"RECORD", 2>>, <<"STATE", 2>>,
               <<"RECORD", 3>>, <<"RECORD", 4>>, <<"STATE", 4>>,
               <<"RECORD", 5>>, <<"STATE", 5>> >>

\* the slice of the example has been read
C8_Witness ==
    /\ seed = NoData
    /\ SliceDone /\ slices_read = 1 /\ checkpoint_interval = 2
    /\ record_counter = 5 /\ RecordTs("threads") = 1..5
    /\ Len(output) = 8

\* C9: a run seeded with the final state of the previous run yields, for a
\* stream read incrementally, no RECORD whose cursor value is at most the
\* seeded cursor value.
C9_ResumptionSafety ==
    seedEmitted =>
        \A i \in DOMAIN output :
            LET s == output[i].stream
            IN (IsRecord(output[i]) /\ IsIncremental(s)
                  /\ s \in DOMAIN seed /\ seed[s].ts # None) =>
                   output[i].ts > seed[s].ts

\* a stream is being read
Reading == pc \in {"slices", "records", "yield_record"}

\* C10: a configured stream takes the incremental path iff it is configured
\* incremental and its stream supports incremental; otherwise it is read
\* without the seed (ChannelMessages is sliced from the default start date,
\* whatever the seed holds) and no STATE message is emitted for it.
C10_SyncModeDecision ==
    /\ Reading => (use_incremental <=> IncrementalAt(idx))
    /\ (Reading /\ ~IncrementalAt(idx)) =>
          /\ stream_state = EmptyDict
          /\ stream_name = "channel_messages" =>
                slices_read + Len(slices) = DefaultStartDays + 1
    /\ (SliceDone /\ IncrementalAt(idx)) =>
          /\ output # << >>
          /\ IsState(output[Len(output)])
          /\ output[Len(output)].stream = stream_name
    /\ \A j \in DOMAIN output :
          IsState(output[j]) => IsIncremental(output[j].stream)

\* a stream configured incremental that does not support it is being read
\* and has yielded a record
C10_Witness ==
    /\ Reading /\ ~use_incremental /\ stream_records > 0
    /\ cfg.sync_mode = "incremental"
    /\ stream_name = "channel_members"

\* the stream called s was read on the incremental path before the stream
\* being read
ReadBefore(s) ==
    \E i \in DOMAIN catalog : i < idx /\ catalog[i].name = s /\ IncrementalAt(i)

\* C11: every STATE message carries the whole connector state: the entry of
\* the stream being read, the current entry of every other stream, and the
\* seed entry, as seeded, of every stream that was not read incrementally
\* before it (not yet read, read in full-refresh mode, or not configured).
\* Stated of the message emitted last, at the time it is emitted.
C11_StateCarriesWholeMap ==
    (output # << >> /\ IsState(output[Len(output)])) =>
        LET m == output[Len(output)]
        IN /\ m.data = connector_state
           /\ DOMAIN m.data = DOMAIN seed \cup {m.stream} \cup
                 {s \in StreamNames : ReadBefore(s) /\ s \in DOMAIN connector_state}
           /\ \A s \in DOMAIN seed :
                 (s # m.stream /\ ~ReadBefore(s)) => m.data[s] = seed[s]

\* a STATE message of a run whose seed holds an entry for a stream that is
\* not configured
C11_Witness ==
    /\ output # << >> /\ IsState(output[Len(output)])
    /\ \E s \in DOMAIN seed :
          /\ s # output[Len(output)].stream
          /\ \A i \in DOMAIN catalog : catalog[i].name # s
          /\ output[Len(output)].data[s] = seed[s]

\* the position of the stream called s in the configured catalog
Position(s) == CHOOSE i \in DOMAIN catalog : catalog[i].name = s

\* the slices iterator of the stream being read has nothing left to yield
SlicesExhausted ==
    /\ pc = "slices"
    /\ IF stream_name = "threads" THEN ParentChunks(slices) = {}
       ELSE slices = << >>

\* C12: the configured streams are read one after the other in the order of
\* the catalog.  The messages are emitted in catalog order (messages are
\* appended one at a time, so it is stated of the message emitted last
\* against the one before it), no message and no request belongs to a
\* stream after the one being read, and the run moves on only to the next
\* configured stream and only when the slices of the stream being read are
\* exhausted.
C12_SequentialStreams ==
    /\ [](/\ output # << >> =>
              LET n == Len(output)
                  last == Position(output[n].stream)
              IN /\ last <= idx
                 /\ n > 1 => Position(output[n - 1].stream) <= last
          /\ \A s \in requested : Position(s) <= idx)
    /\ [][(idx' # idx /\ pc' # "read") =>
            (idx' = idx + 1 /\ SlicesExhausted)]_vars

\* the second configured stream is being read after the first emitted a
\* message, and has emitted one itself
C12_Witness ==
    /\ idx = 2 /\ Reading
    /\ \E j \in DOMAIN output :
          /\ j + 1 \in DOMAIN output
          /\ output[j].stream = catalog[1].name
          /\ output[j + 1].stream = catalog[2].name

\* C13: once an exception has escaped the slices or the records of a stream
\* (the except clause has logged it), the run has been aborted by raising
\* it: it is not reading and has not ended normally, and from then on no
\* message is emitted, of that stream or of a later one.
C13_ErrorAborts ==
    /\ [](failure_log # NoLog => pc = "error")
    /\ [][failure_log' # NoLog => (pc' = "error" /\ output' = output)]_vars

\* a stream that has an instance failed after it emitted a message, with a
\* configured stream still to read
C13_Witness ==
    /\ pc = "error" /\ failure_log # NoLog
    /\ Implemented(stream_name) /\ stream_name \in requested
    /\ idx < Len(catalog)
    /\ output # << >> /\ output[Len(output)].stream = stream_name

\* the number of records of stream s the run has emitted
RecordsRead(s) ==
    Cardinality({j \in DOMAIN output :
                    IsRecord(output[j]) /\ output[j].stream = s})

\* C14: when a stream fails, the entry the except clause logs holds the name
\* of the failing stream and the number of records read from it so far.
C14_FailureLogNamesStream ==
    pc = "error" =>
        /\ failure_log.name = stream_name
        /\ failure_log.records = RecordsRead(stream_name)

\* C15: a configured name that SourceSlack.streams returns no stream for is
\* fatal and is raised before any request is issued for it: no request and
\* no message ever belongs to it, the run never gets past it, and when the
\* run reaches it the run is aborted with the failure logged.
C15_UnknownStreamIsFatal ==
    \A i \in DOMAIN catalog :
        catalog[i].name \notin StreamNames =>
            /\ catalog[i].name \notin requested
            /\ \A j \in DOMAIN output : output[j].stream # catalog[i].name
            /\ idx <= i
            /\ (idx = i /\ pc \notin {"read", "stream"}) =>
                  (pc = "error" /\ failure_log = exception_log)

\* the run was aborted at a name without an instance, after the stream
\* configured before it was read
C15_Witness ==
    /\ pc = "error" /\ stream_name \notin StreamNames
    /\ idx = 2 /\ catalog[1].name \in requested
    /\ output # << >>

\* the run has begun to read the configured stream at position i
Reached(i) == idx = i /\ pc \notin {"read", "stream"}

\* C16: a stream configured incremental without a cursor field is a
\* configuration error raised before any request: no request is ever issued
\* for the stream, and the run is aborted when it reaches the stream.
C16_NoCursorFieldIsError ==
    \A i \in DOMAIN catalog :
        (catalog[i].sync_mode = "incremental"
           /\ catalog[i].cursor_field = << >>) =>
            /\ catalog[i].name \notin requested
            /\ Reached(i) => pc = "error"

\* a path of more than one segment
Nested(path) == Len(path) > 1

\* C17: a configured cursor field, or a component of a configured primary
\* key, that is a nested path makes the read fail before any request: no
\* request is ever issued for the stream, and the run is aborted when it
\* reaches the stream.
C17_NestedPathIsError ==
    \A i \in DOMAIN catalog :
        (\/ Nested(catalog[i].cursor_field)
         \/ \E k \in DOMAIN catalog[i].primary_key :
               Nested(catalog[i].primary_key[k])) =>
            /\ catalog[i].name \notin requested
            /\ Reached(i) => pc = "error"

\* C18: get_cursor_field resolves no cursor field to "_airbyte_emitted_at"
\* and a path of one segment to the column of that name, and raises
\* ValueError for a path of several segments; get_primary_key resolves each
\* component of one segment to the column of that name, and raises
\* ValueError for no primary key and for a component of several segments.
C18_PathResolution ==
    /\ resolved.method = "get_cursor_field" =>
          LET cf == processor.cursor_field
          IN /\ cf = << >> =>
                   (resolved.raised = ""
                      /\ resolved.value = <<"_airbyte_emitted_at">>)
             /\ Len(cf) = 1 =>
                   (resolved.raised = "" /\ resolved.value = cf)
             /\ Len(cf) > 1 => resolved.raised = "ValueError"
    /\ resolved.method = "get_primary_key" =>
          LET pk == processor.primary_key
          IN /\ pk = << >> => resolved.raised = "ValueError"
             /\ (\E k \in DOMAIN pk : Len(pk[k]) > 1) =>
                   resolved.raised = "ValueError"
             /\ (pk # << >> /\ \A k \in DOMAIN pk : Len(pk[k]) = 1) =>
                   /\ resolved.raised = ""
                   /\ Len(resolved.value) = Len(pk)
                   /\ \A k \in DOMAIN pk : pk[k] = <<resolved.value[k]>>

\* get_cursor_field raised ValueError for a nested cursor field
C18_Witness ==
    /\ resolved.method = "get_cursor_field"
    /\ Len(processor.cursor_field) = 2
    /\ resolved.raised = "ValueError"

\* C19: every call of check returns a status and leaves read alone: FAILED
\* with the message str(error) when check_connection returned a false flag,
\* FAILED with the message str(exception) when it raised, and SUCCEEDED
\* exactly when it returned a true flag.
C19_CheckStatus ==
    /\ [](statuses # << >> =>
            LET status == statuses[Len(statuses)]
            IN /\ status.status \in {"SUCCEEDED", "FAILED"}
               /\ status.status = "SUCCEEDED" <=>
                     (~connection.raised /\ connection.flag)
               /\ status.status = "FAILED" =>
                     status.message = Str(connection.error))
    /\ [][statuses' # statuses =>
            (Len(statuses') = Len(statuses) + 1 /\ UNCHANGED readvars)]_vars

\* check returned FAILED after check_connection returned a false flag with
\* the error None, and FAILED after it raised a KeyError
C19_Witness ==
    /\ Len(statuses) >= 2
    /\ statuses[1] = AirbyteConnectionStatus("FAILED", "None")
    /\ connection.raised /\ connection.error.type = "KeyError"
    /\ statuses[Len(statuses)] =
          AirbyteConnectionStatus("FAILED", "'api_token'")

\* the response holds no next cursor, or an empty one
Tokenless(r) == ~r.response_metadata \/ r.next_cursor \in {"", Undefined}

\* C20: the requests of a slice are sent one at a time; the first carries no
\* cursor; every later one follows a response that held a non-empty
\* next_cursor and carries exactly that cursor; and the pagination is
\* complete, with no request after it, exactly when the last response held
\* no next_cursor or an empty one.
C20_Pagination ==
    /\ Len(page_requests) \in
          {Len(page_responses), Len(page_responses) + 1}
    /\ page_requests # << >> => "cursor" \notin DOMAIN page_requests[1]
    /\ \A i \in DOMAIN page_requests :
          i > 1 =>
            /\ ~Tokenless(page_responses[i - 1])
            /\ "cursor" \in DOMAIN page_requests[i]
            /\ page_requests[i].cursor = page_responses[i - 1].next_cursor
    /\ pagination_complete <=>
          /\ page_responses # << >>
          /\ Len(page_requests) = Len(page_responses)
          /\ Tokenless(page_responses[Len(page_responses)])

\* a slice of three pages whose last response held an empty next_cursor
C20_Witness ==
    /\ pagination_complete
    /\ Len(page_requests) = 3
    /\ page_requests[3].cursor = "c2"
    /\ page_responses[3].next_cursor = ""

\* a request is in flight from where read stands
InFlight == RequestPoint /\ request = RequestAt

\* the status of the last response is one the spec calls retryable
Retryable == last_response.status_code \in {429} \cup 500..599

\* the status of the last response is a 4xx other than 429
NonRetryable == last_response.status_code \in 400..499 \ {429}

\* C21: a request is sent again only after a retryable status (429 or 5xx),
\* and it is the same request: read stands where it stood.  A retryable
\* status with tries left is retried, not raised.  No request is retried
\* more than MaxTries times, and a retryable status after the last try is
\* raised as the fatal error of the stream.
C21_BoundedRetry ==
    /\ [](attempts <= MaxTries + 1)
    /\ [][/\ (attempts' > attempts /\ attempts >= 1) =>
               (Retryable /\ UNCHANGED readvars /\ request' = request)
          /\ (InFlight /\ Retryable /\ attempts <= MaxTries) =>
               (attempts' = attempts + 1 /\ pc' # "error")
          /\ (InFlight /\ Retryable /\ attempts = MaxTries + 1) =>
               pc' = "error"]_vars

\* a server error was answered to the request and to each of its retries: the
\* read has failed
C21_Witness ==
    /\ pc = "error"
    /\ attempts = MaxTries + 1
    /\ last_response.status_code = 500

\* C22: after a 4xx status other than 429 the request is not sent again: the
\* next step is the failure of the read, in which no message is emitted, and
\* no stream configured after the failing one is read.
C22_NonRetryableIsFatal ==
    /\ [][(InFlight /\ NonRetryable) =>
             /\ pc' = "error"
             /\ attempts' = attempts
             /\ output' = output
             /\ idx' = idx]_vars
    /\ [][pc = "error" => UNCHANGED readvars]_vars

\* the first response to a request of the first of two streams was a 404: the
\* read failed without a retry and without reading the second stream
C22_Witness ==
    /\ pc = "error"
    /\ last_response.status_code = 404
    /\ attempts = 1
    /\ idx = 1
    /\ Len(catalog) = 2
    /\ failure_log = exception_log

\* C23: for a 429 the backoff time is the integer the Retry-After header
\* holds, 0 when the response has no such header; for every other status it
\* is None.
C23_BackoffTime ==
    attempts > 0 =>
        IF last_response.status_code = 429
        THEN /\ last_response.retry_after = "30" => backoff = 30
             /\ last_response.retry_after = "0" => backoff = 0
             /\ last_response.retry_after = Undefined => backoff = 0
        ELSE backoff = None

\* a 429 that tells to retry after 30 seconds
C23_Witness ==
    /\ last_response.status_code = 429
    /\ last_response.retry_after = "30"
    /\ backoff = 30

\* the message emitted last
LastMessage == output[Len(output)]

\* C24: read is lazy.  A step of the run hands at most one message to the
\* caller, appended to those it has; the records pulled from read_records
\* exceed the RECORD messages handed over by at most one; a slice is taken
\* from the slices iterator only between slices, once the records of the
\* slice before are exhausted and, on the incremental path, its trailing
\* STATE is the message emitted last.
C24_LazyRead ==
    /\ [](Reading => stream_records - RecordsRead(stream_name) \in {0, 1})
    /\ [][(output' # output /\ pc # "done") =>
             /\ Len(output') = Len(output) + 1
             /\ SubSeq(output', 1, Len(output)) = output]_vars
    /\ [][(pc = "records" /\ pc' = "slices") =>
             Exhausted(slice, latest, slice_records)]_vars
    /\ [][slices_read' > slices_read =>
             /\ pc = "slices"
             /\ (use_incremental /\ slices_read > 0) =>
                   /\ output # << >>
                   /\ IsState(LastMessage)
                   /\ LastMessage.stream = stream_name
                   /\ LastMessage.slice = sliceNo]_vars

\* the second slice of an incremental stream has just been taken: the
\* records of the first and its STATE were emitted before
C24_Witness ==
    /\ pc = "records"
    /\ use_incremental
    /\ slices_read = 2
    /\ slice_records = 0
    /\ RecordsRead(stream_name) >= 1
    /\ IsState(LastMessage)
    /\ LastMessage.slice = sliceNo - 1

\* C25: get_updated_state is pure.  A call of it that is followed by no
\* checkpoint leaves the connector state, which holds the dict the call was
\* given once the stream was checkpointed, as it was; and the tracked cursor
\* value it returns is never lower than the one it was given.
C25_GetUpdatedStateIsPure ==
    [][pc = "yield_record" =>
          /\ output' = output => connector_state' = connector_state
          /\ stream_state'.ts >= stream_state.ts]_vars

\* C26: when a slice of n records has been read on the incremental path
\* without a checkpoint interval (None or 0), the messages of the slice are
\* its n records followed by one STATE: no STATE stands between the records.
C26_NoIntervalOneState ==
    (SliceDone /\ use_incremental /\ checkpoint_interval = 0) =>
        LET M == SliceMessages(sliceNo)
        IN /\ Len(M) = record_counter + 1
           /\ \A i \in 1..Len(M) :
                 /\ M[i].stream = stream_name
                 /\ IsState(M[i]) <=> i = Len(M)

\* a slice of two records has been read without a checkpoint interval
C26_Witness ==
    /\ SliceDone /\ use_incremental
    /\ checkpoint_interval = 0 /\ record_counter = 2
    /\ Len(SliceMessages(sliceNo)) = 3

\* C27: a stream read on the incremental path whose configured stream holds
\* a checkpoint interval is checkpointed at that interval, whatever interval
\* its stream instance declares.
C27_OverrideIsUsed ==
    (Reading /\ use_incremental /\ cfg.interval_override # None) =>
        checkpoint_interval = cfg.interval_override

\* the state the stream called s starts from: its seed entry, {} without one
SeedEntry(s) == IF s \in DOMAIN seed THEN seed[s] ELSE EmptyDict

\* get_updated_state folded from state st over the records of stream s among
\* the messages out[i..]
RECURSIVE Fold(_, _, _, _)
Fold(st, s, out, i) ==
    IF i > Len(out) THEN st
    ELSE IF IsRecord(out[i]) /\ out[i].stream = s
         THEN Fold(get_updated_state(st, out[i].ts), s, out, i + 1)
         ELSE Fold(st, s, out, i + 1)

\* C28: in a STATE message emitted while a stream is read incrementally, the
\* entry of that stream is get_updated_state folded, from the seed entry of
\* the stream ({} without one), over exactly the records of the stream
\* emitted before the message in this run, in their order.  Stated of the
\* message emitted last, at the time it is emitted.
C28_StateIsFoldOfRecords ==
    (output # << >> /\ IsState(LastMessage)) =>
        LastMessage.data[LastMessage.stream] =
            Fold(SeedEntry(LastMessage.stream), LastMessage.stream, output, 1)

\* a STATE follows two records of a seeded stream
C28_Witness ==
    /\ output # << >>
    /\ IsState(LastMessage)
    /\ LastMessage.stream \in DOMAIN seed
    /\ RecordsRead(LastMessage.stream) >= 2
    /\ LastMessage.data[LastMessage.stream] # seed[LastMessage.stream]

\* C29: an emitted STATE message is a snapshot.  The entry of the stream
\* being read in the STATE message emitted last is the dict that
\* connector_state holds for the stream; it reads, whatever records were
\* processed since, as it read when the message was emitted.
C29_StateIsSnapshot ==
    (Reading /\ use_incremental /\ States(output) # {}) =>
        LET m == output[MaxOf(States(output))]
        IN m.stream = stream_name =>
              connector_state[stream_name] = m.data[stream_name]

\* the entry of its stream in the STATE message at position i, as the message
\* the caller holds reads now: the message emitted last for the stream being
\* read holds the dict connector_state holds
Held(i) ==
    IF i = MaxOf(States(output)) /\ output[i].stream = stream_name
    THEN connector_state[stream_name]
    ELSE output[i].data[output[i].stream]

\* C30: when the read of a stream fails, no message is emitted for the
\* failure: the slice gets no trailing STATE and the last STATE the caller
\* holds is the one emitted last before the failure.  The records emitted
\* after that STATE are not reflected in it: its entry of the stream is
\* get_updated_state folded over the records emitted before it only.
C30_FailureLeavesLastState ==
    /\ [][(pc' = "error" /\ pc # "error") => output' = output]_vars
    /\ []((pc = "error" /\ IncrementalAt(idx) /\ States(output) # {}) =>
            LET i == MaxOf(States(output))
                s == output[i].stream
            IN Held(i) = Fold(SeedEntry(s), s, SubSeq(output, 1, i), 1))

\* C31: read works on a deep copy of the state it is given.  No step of a
\* run, whether it ends normally or is aborted, changes the caller's seed or
\* an entry of it; the seed changes only when the caller invokes read again
\* with another state.
C31_SeedIsNotModified ==
    [][pc # "done" => seed' = seed]_vars

\* a run seeded for a stream it read incrementally has ended, and its working
\* state has moved away from the seed
C31_Witness ==
    /\ pc \in {"done", "error"}
    /\ ~seedEmitted
    /\ \E i \in DOMAIN catalog :
          /\ IncrementalAt(i)
          /\ catalog[i].name \in DOMAIN seed
          /\ catalog[i].name \in DOMAIN connector_state
          /\ connector_state[catalog[i].name] # seed[catalog[i].name]

\* the stream called s has not been read on the incremental path so far: it
\* is read in full-refresh mode, is not reached yet or is not configured
Untouched(s) ==
    \A i \in DOMAIN catalog :
        catalog[i].name = s => (~IncrementalAt(i) \/ i > idx)

\* C32: reading a stream changes only the entry of that stream.  In a STATE
\* message, the entry of a stream that is read in full-refresh mode, is not
\* reached yet or is not configured is the seed entry of the stream, and the
\* message has no entry for such a stream that the seed has none for.
\* Stated of the message emitted last, at the time it is emitted.
C32_OnlyOwnEntryChanges ==
    (output # << >> /\ IsState(LastMessage)) =>
        \A s \in StreamNames \cup {UnknownStream} :
            Untouched(s) =>
                IF s \in DOMAIN seed
                THEN s \in DOMAIN LastMessage.data
                       /\ LastMessage.data[s] = seed[s]
                ELSE s \notin DOMAIN LastMessage.data

\* a STATE message of the second configured stream carries the seed entry of
\* the first, which was read in full-refresh mode
C32_Witness ==
    /\ output # << >> /\ IsState(LastMessage)
    /\ idx = 2
    /\ catalog[1].sync_mode = "full_refresh"
    /\ catalog[1].name \in DOMAIN seed
    /\ LastMessage.data[catalog[1].name] = seed[catalog[1].name]
    /\ RecordsRead(catalog[1].name) >= 1

\* C33: a configured name without a stream instance is not looked for when
\* read starts.  A run fails only where it stands: on a request of the
\* stream it is reading, or on the name without instance it has reached.
\* So the error of such a name surfaces only after every stream configured
\* before it was read to its end, with all its messages emitted.
C33_MissingStreamSurfacesLate ==
    /\ [][(pc' = "error" /\ pc # "error") =>
             /\ idx' = idx
             /\ \/ pc \in {"slices", "records"}
                   /\ catalog[idx].name \in StreamNames
                \/ pc = "stream" /\ catalog[idx].name \notin StreamNames]_vars
    /\ [][(idx' > idx /\ pc' # "read") => SlicesExhausted]_vars

\* the run was aborted at the second configured name, which has no instance,
\* after the records of the first stream were emitted
C33_Witness ==
    /\ pc = "error"
    /\ idx = 2
    /\ catalog[2].name \notin StreamNames
    /\ RecordsRead(catalog[1].name) >= 1
    /\ LastMessage.stream = catalog[1].name

\* the stream called s is about to be sliced, on the incremental path, in a
\* run seeded with a state that the run before emitted for it
Resumed(s) ==
    /\ seedEmitted
    /\ pc = "slices" /\ slices_read = 0
    /\ stream_name = s /\ use_incremental
    /\ s \in DOMAIN seed /\ seed[s].ts # None

\* C34: when ChannelMessages is read with a state that the connector emitted
\* for it, its slices start at the timestamp the state records: no slice
\* begins before it, and unless that timestamp is later than now the first
\* slice begins at it.
C34_ChannelMessagesResume ==
    Resumed("channel_messages") =>
        LET ts == seed["channel_messages"].ts
        IN /\ \A j \in DOMAIN slices : slices[j].oldest >= ts
           /\ ts <= Now => (slices # << >> /\ Head(slices).oldest = ts)

\* C35: when Threads is read with a state that the connector emitted for it,
\* the chunks in which it looks for parent messages start at the latest
\* timestamp of the state minus the lookback window, not at the default
\* start date.
C35_ThreadsLookback ==
    Resumed("threads") =>
        LET ts == Max(seed["threads"].ts, seed["threads"].start_ts)
        IN /\ slices # << >>
           /\ Head(slices).oldest = Timestamp(FromTimestamp(ts) - LookbackDays)

\* C36: chunk_date_range returns, for every start date.  What it returns is
\* one slice per day from start_date up to now, none when start_date is
\* later than now, in ascending order: the j-th slice begins j - 1 days
\* after start_date and ends one day later, where the next one begins.  It is
\* the list the slices of ChannelMessages and Threads are computed as.
C36_ChunkDateRange ==
    /\ <>(chunk_pc = "return")
    /\ [](chunk_pc = "return" =>
            LET n == Len(intervals)
            IN /\ n = IF chunk_from <= Now THEN Now - chunk_from + 1 ELSE 0
               /\ \A j \in 1..n :
                     /\ intervals[j].oldest = chunk_from + j - 1
                     /\ intervals[j].latest = intervals[j].oldest + 1
                     /\ j < n => intervals[j + 1].oldest = intervals[j].latest
               /\ intervals = chunk_date_range(chunk_from))

\* the call with the default start date has returned its fifteen days
C36_Witness ==
    /\ chunk_pc = "return"
    /\ chunk_from = default_start_date
    /\ Len(intervals) = DefaultStartDays + 1

\* C37: a read joins every public channel before it reads.  A request for
\* the slices or the records of a configured stream, and a message, come
\* only after the join request of every channel was answered; channels are
\* joined only before read enters its loop over the catalog.
C37_JoinPrecedesRead ==
    /\ [](pc \notin {"read", "error"} => joined = PublicChannels)
    /\ []((requested # {} \/ output # << >>) => joined = PublicChannels)
    /\ [][joined' # joined =>
             (pc = "read" /\ requested = {} /\ output = << >>)]_vars

\* every channel was joined and a request for records was issued
C37_Witness ==
    /\ joined = PublicChannels
    /\ joined # {}
    /\ requested # {}
    /\ output # << >>

\* C38: SourceSmartsheets.read tolerates rows.  A row that makes no RECORD
\* is logged and skipped, and read goes on with the next row; read raises
\* only when the sheet cannot be fetched, so a sheet that was fetched is read
\* to its end, with one RECORD for each of its good rows per configured
\* stream.
C38_RowTolerance ==
    /\ sheet_pc = "raised" => sheet.fetch # "ok"
    /\ (sheet_pc = "rows" /\ sheet_row > 1
          /\ sheet.rows[sheet_row - 1] # "ok") =>
            /\ sheet_log # << >>
            /\ sheet_log[Len(sheet_log)].row = sheet_row - 1
    /\ sheet_pc = "done" =>
          Len(sheet_messages) =
             sheet.streams *
                Cardinality({i \in DOMAIN sheet.rows : sheet.rows[i] = "ok"})

\* C39: SourceSmartsheets.check does not raise: it returns SUCCEEDED when the
\* sheet can be fetched, and otherwise FAILED with a message that tells the
\* failure.
C39_CheckReturnsMessage ==
    sheet_status # NoStatus =>
        IF sheet.fetch = "ok"
        THEN sheet_status.status = "SUCCEEDED"
        ELSE /\ sheet_status.status = "FAILED"
             /\ sheet_status.message # None

\* the modes a listed stream supports
Modes(st) ==
    {st.supported_sync_modes[i] : i \in DOMAIN st.supported_sync_modes}

\* C40: every stream BaseClient.streams lists supports full_refresh; it
\* supports incremental exactly when stream_has_state is true of its name,
\* and its source_defined_cursor flag is that same condition.  read_stream of
\* a name that has no method with the prefix raises ValueError and yields no
\* record.
C40_StreamCatalog ==
    /\ \A i \in DOMAIN listed :
          /\ "full_refresh" \in Modes(listed[i])
          /\ "incremental" \in Modes(listed[i])
                <=> listed[i].name \in client.has_state
          /\ listed[i].source_defined_cursor
                <=> listed[i].name \in client.has_state
          /\ (prefix \o listed[i].name) \in client.functions
    /\ (/\ read_stream_result # << >>
        /\ (prefix \o read_stream_result[1].value) \notin client.functions) =>
          /\ Len(read_stream_result) = 2
          /\ read_stream_result[2] =
                [kind |-> "raise", value |-> <<"ValueError">>]

\* a stream with state and one without are listed, and a stream without a
\* method was read
C40_Witness ==
    /\ \E i, j \in DOMAIN listed :
          /\ listed[i].source_defined_cursor
          /\ ~listed[j].source_defined_cursor
    /\ read_stream_result # << >>
    /\ read_stream_result[Len(read_stream_result)].kind = "raise"

====
